---- MODULE Spec2Model ----
(***************************************************************************)
(* jddf-fuzz (src/src/main.rs): a driver loop that repeatedly calls the    *)
(* recursive generator fuzz(rng, schema) and prints each value.            *)
(*                                                                         *)
(* The random source is modelled as nondeterminism: every operator named   *)
(* after a fuzz_* function denotes the SET of outcomes the function can    *)
(* return over all sequences of random draws.  An outcome is a JSON value  *)
(* or Panic (the call unwound: panic!() or a failed unwrap()).             *)
(***************************************************************************)
EXTENDS Integers, Sequences, FiniteSets, TLC

VARIABLES
    schema,           \* main: the compiled schema (root node), read only
    num_values,       \* main: the requested count
    overflow_checks,  \* build profile: is `i += 1` compiled with overflow checks
    i,                \* main: the loop counter (usize)
    pc,               \* position of main
    val,              \* the value returned by the current top-level fuzz call
    frame,            \* locals of the outermost fuzz_props / fuzz_values / fuzz_discr call
    calls,            \* number of top-level fuzz calls begun so far
    gen,              \* values returned by the top-level fuzz calls, in order
    out               \* values printed to stdout, in order

vars == <<schema, num_values, overflow_checks, i, pc, val, frame, calls, gen, out>>

(***************************************************************************)
(* Bounds.  The source draws every length and count from gen_range(0, 8)   *)
(* and every character from gen_range(32u8, 127u8); the model keeps the    *)
(* lower ends and scales the exclusive upper ends down.                    *)
(***************************************************************************)
\* exclusive upper end of the string length drawn in fuzz_str (8 in the source)
StrLenEnd == 2
\* number of characters of the alphabet, counted from CharLo (95 in the source)
NumChars == 1
\* exclusive upper end of the element count drawn in fuzz_elems (8 in the source)
ElemsEnd == 2
\* exclusive upper end of the additional-member count in fuzz_props (8 in the source)
AdditionalEnd == 2
\* exclusive upper end of the member count drawn in fuzz_values (8 in the source)
ValuesEnd == 3
\* precision bits of a generated f32 (24 in rand) and f64 (53 in rand)
F32Bits == 1
F64Bits == 2
\* width of usize in bits (64 on the usual targets)
UsizeBits == 2

\* first character code fuzz_str can draw
CharLo == 32

RECURSIVE Pow2(_)
Pow2(n) == IF n = 0 THEN 1 ELSE 2 * Pow2(n - 1)

UsizeMax == Pow2(UsizeBits) - 1

\* The values a full-range integer draw is sampled at: both ends and the
\* neighbourhood of zero.
Sample(lo, hi) == {lo, hi} \cup {x \in {-1, 0, 1} : lo <= x /\ x <= hi}

(***************************************************************************)
(* serde_json::Value                                                       *)
(***************************************************************************)
Null == <<"null">>
Bool(b) == <<"bool", b>>
\* Number holding an integer
IntNum(n) == <<"int", n>>
\* Number holding the finite float k / 2^bits
FloatNum(k, bits) == <<"float", k, bits>>
\* String; s is the sequence of its character codes
Str(s) == <<"str", s>>
Arr(q) == <<"arr", q>>
\* Object; m is a function from keys (sequences of character codes) to values
Obj(m) == <<"obj", m>>
\* not a value: the call panicked
Panic == <<"panic">>

IsObj(v) == v[1] = "obj"
EmptyMap == [k \in {} |-> Null]

(***************************************************************************)
(* jddf::schema::Form                                                      *)
(***************************************************************************)
SEmpty == [form |-> "empty"]
SType(t) == [form |-> "type", type |-> t]
SEnum(vals) == [form |-> "enum", vals |-> vals]
SElements(sub) == [form |-> "elements", sub |-> sub]
SProperties(required, optional, allow_additional) ==
    [form |-> "properties", required |-> required, optional |-> optional,
     allow_additional |-> allow_additional]
SValues(sub) == [form |-> "values", sub |-> sub]
SDiscriminator(tag, mapping) == [form |-> "discriminator", tag |-> tag, mapping |-> mapping]
\* a form the match in fuzz has no arm for (jddf's Form::Ref), taken by `_ => panic!()`
SRef == [form |-> "ref"]

(***************************************************************************)
(* Primitive generators (main.rs 79-146)                                   *)
(***************************************************************************)
fuzz_bool == {Bool(b) : b \in BOOLEAN}

fuzz_i8 == {IntNum(n) : n \in Sample(-128, 127)}

fuzz_u8 == {IntNum(n) : n \in Sample(0, 255)}

fuzz_i16 == {IntNum(n) : n \in Sample(-32768, 32767)}

fuzz_u16 == {IntNum(n) : n \in Sample(0, 65535)}

\* rng.gen::<i32>(): the draws the model samples
GenI32 == Sample(-2147483647 - 1, 2147483647)

fuzz_i32 == {IntNum(n) : n \in GenI32}

\* u32 reaches 4294967295; the sample stops at the largest integer TLC holds
fuzz_u32 == {IntNum(n) : n \in Sample(0, 2147483647)}

\* GenFloat as it would be if the draw were uniform over the bit patterns of the
\* width: both signs, magnitudes up to 2 and beyond 1, the infinities and NaN
GenFloatAllBits(bits) ==
    {<<"fin", sign, k, bits>> : sign \in {-1, 1}, k \in 0 .. (2 * Pow2(bits))}
    \cup {<<"inf", 1>>, <<"inf", -1>>, <<"nan">>}

\* rng.gen::<f32>() / rng.gen::<f64>(): rand's Standard distribution takes the
\* top `bits` bits k of a random word and returns k * 2^-bits, a float in [0, 1).
\* A float is <<"fin", sign, k, bits>> (sign * k / 2^bits), <<"inf", sign>> or <<"nan">>.
GenFloat(bits) == {<<"fin", 1, k, bits>> : k \in 0 .. (Pow2(bits) - 1)}

\* impl From<f32/f64> for Value: Number::from_f64(f).map_or(Value::Null, Value::Number);
\* from_f64 is None for a non-finite float
FromFloat(f) == IF f[1] = "fin" THEN FloatNum(f[2] * f[3], f[4]) ELSE Null

fuzz_f32 == {FromFloat(f) : f \in GenFloat(F32Bits)}

fuzz_f64 == {FromFloat(f) : f \in GenFloat(F64Bits)}

\* the characters gen_range(32u8, 127u8) draws from, scaled to NumChars
Chars == CharLo .. (CharLo + NumChars - 1)

fuzz_str == UNION {[1 .. n -> Chars] : n \in 0 .. (StrLenEnd - 1)}

fuzz_string == {Str(s) : s \in fuzz_str}

\* character codes of the decimal digits of n, zero-padded to 2 and to 4 places
Pad2(n) == <<48 + (n \div 10), 48 + (n % 10)>>
Pad4(n) == Pad2(n \div 100) \o Pad2(n % 100)

\* NaiveDateTime::from_timestamp(secs, 0) as <<year, month, day, hour, minute, second>>
\* (proleptic Gregorian calendar, days counted from 0000-03-01)
FromTimestamp(secs) ==
    LET days == secs \div 86400
        sod  == secs % 86400
        z    == days + 719468
        era  == z \div 146097
        doe  == z - era * 146097
        yoe  == (doe - (doe \div 1460) + (doe \div 36524) - (doe \div 146096)) \div 365
        doy  == doe - (365 * yoe + (yoe \div 4) - (yoe \div 100))
        mp   == (5 * doy + 2) \div 153
        d    == doy - ((153 * mp + 2) \div 5) + 1
        m    == IF mp < 10 THEN mp + 3 ELSE mp - 9
        y    == yoe + era * 400 + (IF m <= 2 THEN 1 ELSE 0)
    IN  <<y, m, d, sod \div 3600, (sod % 3600) \div 60, sod % 60>>

\* DateTime::<Utc>::to_rfc3339(): "YYYY-MM-DDTHH:MM:SS+00:00" as character codes
ToRfc3339(dt) ==
    Pad4(dt[1]) \o <<45>> \o Pad2(dt[2]) \o <<45>> \o Pad2(dt[3]) \o <<84>>
    \o Pad2(dt[4]) \o <<58>> \o Pad2(dt[5]) \o <<58>> \o Pad2(dt[6])
    \o <<43, 48, 48, 58, 48, 48>>

fuzz_timestamp == {Str(ToRfc3339(FromTimestamp(secs))) : secs \in GenI32}

\* vec![Null, bool, u8, f64, string].into_iter().choose(rng).unwrap()
fuzz_any == {Null} \cup fuzz_bool \cup fuzz_u8 \cup fuzz_f64 \cup fuzz_string

\* vals.iter().choose(rng).unwrap(): None.unwrap() panics on an empty set
fuzz_enum(vals) == IF vals = {} THEN {Panic} ELSE {Str(v) : v \in vals}

(***************************************************************************)
(* Composite generators (main.rs 51-77, 148-207)                           *)
(***************************************************************************)
RECURSIVE Fuzz(_)

\* the orders in which a HashMap's keys S can be iterated
Perms(S) ==
    {q \in [1 .. Cardinality(S) -> S] : \A a, b \in 1 .. Cardinality(S) : a # b => q[a] # q[b]}

\* the pushes (k.clone(), fuzz(rng, v)) for the keys of `order`, in that order
RECURSIVE PairSeqs(_, _)
PairSeqs(order, m) ==
    IF order = <<>> THEN {<<>>}
    ELSE {<<<<Head(order), v>>>> \o rest :
            v \in Fuzz(m[Head(order)]), rest \in PairSeqs(Tail(order), m)}

HasPanic(pairs) == \E j \in DOMAIN pairs : pairs[j][2] = Panic

\* Collect with the first insertion under a key kept (first-write-wins)
CollectFirst(pairs) ==
    [k \in {pairs[j][1] : j \in DOMAIN pairs} |->
        LET first == CHOOSE j \in DOMAIN pairs :
                        /\ pairs[j][1] = k
                        /\ \A h \in DOMAIN pairs : pairs[h][1] = k => j <= h
        IN  pairs[first][2]]

\* into_iter().collect::<serde_json::Map<String, Value>>(): the pairs are inserted
\* in order, a later insertion replacing the value under an equal key
Collect(pairs) ==
    [k \in {pairs[j][1] : j \in DOMAIN pairs} |->
        LET last == CHOOSE j \in DOMAIN pairs :
                        /\ pairs[j][1] = k
                        /\ \A h \in DOMAIN pairs : pairs[h][1] = k => h <= j
        IN  pairs[last][2]]

\* Insert that keeps the value already present under k (entry(k).or_insert(v))
InsertIfAbsent(m, k, v) == [x \in DOMAIN m \cup {k} |-> IF x \in DOMAIN m THEN m[x] ELSE v]

\* Map::insert(k, v): the value under k is replaced when k is present
Insert(m, k, v) == [x \in DOMAIN m \cup {k} |-> IF x = k THEN v ELSE m[x]]

\* fuzz_elems: (0..rng.gen_range(0, 8)).map(|_| fuzz(rng, sub_schema)).collect()
fuzz_elems(sub_schema) ==
    UNION {{IF \E j \in 1 .. n : q[j] = Panic THEN Panic ELSE Arr(q) :
                q \in [1 .. n -> Fuzz(sub_schema)]} : n \in 0 .. (ElemsEnd - 1)}

\* RequiredPushes with each required key pushed only when rng.gen() is true
RequiredPushesCoin(required) ==
    UNION {PairSeqs(SelectSeq(order, LAMBDA k : k \in taken), required) :
            order \in Perms(DOMAIN required), taken \in SUBSET DOMAIN required}

\* fuzz_props, lines 163-165: one push per required key
RequiredPushes(required) ==
    UNION {PairSeqs(order, required) : order \in Perms(DOMAIN required)}

\* fuzz_props, lines 167-171: one push per optional key for which rng.gen() is true
OptionalPushes(optional) ==
    UNION {PairSeqs(SelectSeq(order, LAMBDA k : k \in taken), optional) :
            order \in Perms(DOMAIN optional), taken \in SUBSET DOMAIN optional}

\* fuzz_props, lines 173-177: 0..7 pushes of (fuzz_str(rng), fuzz_any(rng))
AdditionalPushes(allow_additional) ==
    IF allow_additional
    THEN UNION {[1 .. n -> fuzz_str \X fuzz_any] : n \in 0 .. (AdditionalEnd - 1)}
    ELSE {<<>>}

\* fuzz_props: the contents `vals` can have at line 179 (a Panic among the values
\* stands for the recursive call that unwound)
fuzz_props_vals(required, optional, allow_additional) ==
    {r \o o \o a : r \in RequiredPushes(required), o \in OptionalPushes(optional),
                   a \in AdditionalPushes(allow_additional)}

\* fuzz_props, lines 179-181
PropsResult(vals) == IF HasPanic(vals) THEN Panic ELSE Obj(Collect(vals))

fuzz_props(required, optional, allow_additional) ==
    {PropsResult(vals) : vals \in fuzz_props_vals(required, optional, allow_additional)}

\* fuzz_values: the (key, value) pairs the map closure yields
fuzz_values_pairs(sub_schema) ==
    UNION {[1 .. n -> fuzz_str \X Fuzz(sub_schema)] : n \in 0 .. (ValuesEnd - 1)}

ValuesResult(pairs) == IF HasPanic(pairs) THEN Panic ELSE Obj(Collect(pairs))

fuzz_values(sub_schema) == {ValuesResult(pairs) : pairs \in fuzz_values_pairs(sub_schema)}

\* fuzz_discr, lines 201-202: <<tag_val, obj>> for the chosen pair of the mapping
fuzz_discr_runs(mapping) ==
    UNION {{<<tag_val, obj>> : obj \in Fuzz(mapping[tag_val])} : tag_val \in DOMAIN mapping}

\* DiscrResult with as_array_mut() in place of as_object_mut()
DiscrResultArray(tag, run) ==
    IF run[2] = Panic \/ run[2][1] # "arr" THEN Panic
    ELSE Obj(Insert(EmptyMap, tag, Str(run[1])))

\* fuzz_discr, lines 203-206: as_object_mut().unwrap() panics unless obj is an object
DiscrResult(tag, run) ==
    IF run[2] = Panic \/ ~IsObj(run[2]) THEN Panic
    ELSE Obj(Insert(run[2][2], tag, Str(run[1])))

\* mapping.iter().choose(rng).unwrap() panics on an empty mapping
fuzz_discr(tag, mapping) ==
    IF DOMAIN mapping = {} THEN {Panic}
    ELSE {DiscrResult(tag, run) : run \in fuzz_discr_runs(mapping)}

\* fuzz: the outcomes of one call on node s
Fuzz(s) ==
    CASE s.form = "empty" -> fuzz_any
      [] s.form = "type" ->
            (CASE s.type = "boolean" -> fuzz_bool
               [] s.type = "int8" -> fuzz_i8
               [] s.type = "uint8" -> fuzz_u8
               [] s.type = "int16" -> fuzz_i16
               [] s.type = "uint16" -> fuzz_u16
               [] s.type = "int32" -> fuzz_i32
               [] s.type = "uint32" -> fuzz_u32
               [] s.type = "float32" -> fuzz_f32
               [] s.type = "float64" -> fuzz_f64
               [] s.type = "string" -> fuzz_string
               [] s.type = "timestamp" -> fuzz_timestamp)
      [] s.form = "enum" -> fuzz_enum(s.vals)
      [] s.form = "elements" -> fuzz_elems(s.sub)
      [] s.form = "properties" -> fuzz_props(s.required, s.optional, s.allow_additional)
      [] s.form = "values" -> fuzz_values(s.sub)
      [] s.form = "discriminator" -> fuzz_discr(s.tag, s.mapping)
      [] OTHER -> {Panic}

\* no fuzz_props / fuzz_values / fuzz_discr call is outermost, or the call unwound
NoFrame == [fn |-> "none"]

\* One top-level call fuzz(rng, s): its result, with the locals of the outermost
\* fuzz_props (vals), fuzz_values (the pairs) or fuzz_discr (tag_val, obj) call
TopRuns(s) ==
    LET Run(f, r) == [frame |-> IF r = Panic THEN NoFrame ELSE f, result |-> r]
    IN  CASE s.form = "properties" ->
                {Run([fn |-> "fuzz_props", vals |-> vals], PropsResult(vals)) :
                    vals \in fuzz_props_vals(s.required, s.optional, s.allow_additional)}
          [] s.form = "values" ->
                {Run([fn |-> "fuzz_values", pairs |-> pairs], ValuesResult(pairs)) :
                    pairs \in fuzz_values_pairs(s.sub)}
          [] s.form = "discriminator" /\ DOMAIN s.mapping # {} ->
                {Run([fn |-> "fuzz_discr", tag_val |-> run[1], obj |-> run[2]],
                     DiscrResult(s.tag, run)) : run \in fuzz_discr_runs(s.mapping)}
          [] OTHER -> {Run(NoFrame, r) : r \in Fuzz(s)}

(***************************************************************************)
(* The schemas the model runs on                                           *)
(***************************************************************************)
\* keys: "" and " " are strings fuzz_str can draw; "x" lies outside the scaled alphabet
KeyEmpty == <<>>
KeySp == <<CharLo>>
KeyX == <<120>>
TagA == <<65>>
TagB == <<66>>

Types ==
    {"boolean", "int8", "uint8", "int16", "uint16", "int32", "uint32",
     "float32", "float64", "string", "timestamp"}

BoolSchema == SType("boolean")
EnumSchema == SEnum({<<97>>, <<98>>})
\* {"properties": {" ": boolean}, "optionalProperties": {"x": boolean}}
PropsClosed == SProperties(KeySp :> BoolSchema, KeyX :> BoolSchema, FALSE)
\* {"properties": {" ": boolean}, "optionalProperties": {"": enum}, "additionalProperties": true}
PropsOpen == SProperties(KeySp :> BoolSchema, KeyEmpty :> EnumSchema, TRUE)
\* two required keys, a nested array
PropsNested == SProperties((KeySp :> SElements(BoolSchema)) @@ (KeyX :> EnumSchema), EmptyMap, FALSE)
\* tag " ": "A" allows additional members (whose key can be the tag), "B" requires "x"
DiscrSchema ==
    SDiscriminator(KeySp, (TagA :> SProperties(EmptyMap, EmptyMap, TRUE))
                          @@ (TagB :> SProperties(KeyX :> BoolSchema, EmptyMap, FALSE)))

\* trees that satisfy the schema compiler's invariants
GoodSchemas ==
    {SEmpty, EnumSchema, SElements(BoolSchema), SElements(SElements(EnumSchema)),
     SValues(BoolSchema), SValues(SElements(BoolSchema)),
     PropsClosed, PropsOpen, PropsNested, DiscrSchema}
    \cup {SType(ty) : ty \in Types}

\* trees that break them: a form fuzz has no arm for (at the root, nested, optional),
\* an empty enum, an empty mapping, a mapping to a schema that is no Properties form
BadSchemas ==
    {SRef, SElements(SRef), SValues(SRef), SProperties(EmptyMap, KeyX :> SRef, FALSE),
     SEnum({}), SDiscriminator(KeySp, EmptyMap), SDiscriminator(KeySp, TagA :> BoolSchema)}

Schemas == GoodSchemas \cup BadSchemas

\* the schemas the driver loop is run on
DriverSchemas == {BoolSchema, SEnum({<<97>>}), SRef, SElements(SRef)}

(***************************************************************************)
(* One top-level call of fuzz (main.rs 51-77), outside the driver          *)
(***************************************************************************)
InitFuzz ==
    /\ schema \in Schemas
    /\ num_values = 1
    /\ overflow_checks = FALSE
    /\ i = 0
    /\ pc = "fuzz"
    /\ val = Null
    /\ frame = NoFrame
    /\ calls = 0
    /\ gen = <<>>
    /\ out = <<>>

Generate ==
    /\ pc = "fuzz"
    /\ \E run \in TopRuns(schema) :
        /\ val' = run.result
        /\ frame' = run.frame
        /\ pc' = IF run.result = Panic THEN "panic_fuzz" ELSE "return"
    /\ calls' = calls + 1
    /\ UNCHANGED <<schema, num_values, overflow_checks, i, gen, out>>

NextFuzz == Generate

SpecFuzz == InitFuzz /\ [][NextFuzz]_vars

(***************************************************************************)
(* The driver: main (main.rs 41-48)                                        *)
(***************************************************************************)
\* the model follows a run for this many top-level calls: one past the wrap of i
MaxCalls == UsizeMax + 2

Init ==
    /\ schema \in DriverSchemas
    /\ num_values \in 0 .. UsizeMax
    /\ overflow_checks \in BOOLEAN
    /\ i = 0
    /\ pc = "loop"
    /\ val = Null
    /\ frame = NoFrame
    /\ calls = 0
    /\ gen = <<>>
    /\ out = <<>>

\* LoopTest with the bound off by one: while i != num_values + 1
LoopTestOffByOne ==
    /\ pc = "loop"
    /\ calls < MaxCalls
    /\ pc' = IF i # num_values + 1 \/ num_values = 0 THEN "fuzz" ELSE "done"
    /\ UNCHANGED <<schema, num_values, overflow_checks, i, val, frame, calls, gen, out>>

\* line 43: while i != num_values || num_values == 0
LoopTest ==
    /\ pc = "loop"
    /\ calls < MaxCalls
    /\ pc' = IF i # num_values \/ num_values = 0 THEN "fuzz" ELSE "done"
    /\ UNCHANGED <<schema, num_values, overflow_checks, i, val, frame, calls, gen, out>>

\* FuzzCall with the unwinding caught and Value::Null substituted
FuzzCallDefault ==
    /\ pc = "fuzz"
    /\ calls' = calls + 1
    /\ \E run \in TopRuns(schema) :
        LET v == IF run.result = Panic THEN Null ELSE run.result
        IN  /\ val' = v
            /\ frame' = run.frame
            /\ gen' = Append(gen, v)
            /\ pc' = "print"
    /\ UNCHANGED <<schema, num_values, overflow_checks, i, out>>

\* line 44, the argument of println!: fuzz(&mut rng, &schema); a panic unwinds main
FuzzCall ==
    /\ pc = "fuzz"
    /\ calls' = calls + 1
    /\ \E run \in TopRuns(schema) :
        IF run.result = Panic
        THEN /\ pc' = "panic_fuzz"
             /\ UNCHANGED <<val, frame, gen>>
        ELSE /\ val' = run.result
             /\ frame' = run.frame
             /\ gen' = Append(gen, run.result)
             /\ pc' = "print"
    /\ UNCHANGED <<schema, num_values, overflow_checks, i, out>>

\* Println with the value kept back in a buffer that is not flushed
PrintlnBuffered ==
    /\ pc = "print"
    /\ pc' = "incr"
    /\ UNCHANGED <<schema, num_values, overflow_checks, i, val, frame, calls, gen, out>>

\* line 44: println!("{}", value)
Println ==
    /\ pc = "print"
    /\ out' = Append(out, val)
    /\ pc' = "incr"
    /\ UNCHANGED <<schema, num_values, overflow_checks, i, val, frame, calls, gen>>

\* line 45: i += 1 on a usize: at usize::MAX it panics ("attempt to add with
\* overflow") when compiled with overflow checks and wraps to 0 otherwise
Incr ==
    /\ pc = "incr"
    /\ IF i = UsizeMax
       THEN IF overflow_checks
            THEN pc' = "panic_add" /\ i' = i
            ELSE pc' = "loop" /\ i' = 0
       ELSE pc' = "loop" /\ i' = i + 1
    /\ UNCHANGED <<schema, num_values, overflow_checks, val, frame, calls, gen, out>>

Next == LoopTest \/ FuzzCall \/ Println \/ Incr

Spec == Init /\ [][Next]_vars

\* the process is sequential and keeps running: a step that can be taken is taken
FairSpec == Spec /\ WF_vars(Next)

(***************************************************************************)
(* Properties of the driver                                                *)
(***************************************************************************)
\* no sequence of random draws makes fuzz unwind on the schema
NeverAborts == Panic \notin Fuzz(schema)

\* C2: with a requested count N >= 1 the loop never begins more than N top-level
\* fuzz calls, never prints more than N values and never overflows i; when main
\* returns it has made exactly N calls and printed exactly N values; and on a
\* schema whose generation never aborts main does return.
C2_ExactlyN ==
    /\ [](num_values >= 1 =>
            calls <= num_values /\ Len(out) <= num_values /\ pc # "panic_add")
    /\ [](num_values >= 1 /\ pc = "done" =>
            calls = num_values /\ Len(out) = num_values)
    /\ ((num_values >= 1 /\ NeverAborts) ~> (pc = "done"))

\* main has returned after printing a count of values that is more than one
C2_Witness == pc = "done" /\ num_values >= 2 /\ Len(out) = num_values

\* C3: with a requested count of 0, on a schema whose generation never aborts,
\* the run never stops: main neither returns nor panics, however far i has advanced.
C3_NeverStops ==
    (num_values = 0 /\ NeverAborts) => pc \notin {"done", "panic_add", "panic_fuzz"}

\* C6: when a top-level fuzz call unwinds, the values printed are exactly the values
\* the earlier calls returned, one fewer than the calls begun; every value ever
\* printed is a value fuzz can return on the schema (never a substitute); and
\* nothing happens after the unwinding.
C6_NoPartialSample ==
    /\ [](pc = "panic_fuzz" => out = gen /\ Len(out) = calls - 1)
    /\ [](\A j \in DOMAIN out : out[j] \in Fuzz(schema) /\ out[j] # Panic)
    /\ [][pc # "panic_fuzz"]_vars

\* a nested node unwound the second or a later sample
C6_Witness == pc = "panic_fuzz" /\ schema = SElements(SRef) /\ Len(out) >= 1

\* C10: the values printed are a prefix of the values generated, at most one
\* generated value is not yet printed, and whenever a top-level fuzz call is about
\* to begin every value generated so far has been printed.
C10_Interleaved ==
    /\ Len(gen) - Len(out) \in {0, 1}
    /\ out = SubSeq(gen, 1, Len(out))
    /\ pc = "fuzz" => Len(out) = Len(gen) /\ Len(gen) = calls

\* a value has been generated and not yet printed, after an earlier one was printed
C10_Witness == pc = "print" /\ Len(gen) = Len(out) + 1 /\ Len(out) >= 1

(***************************************************************************)
(* The schema compiler's invariants and JDDF conformance (the terms the     *)
(* properties of the generator are stated in)                               *)
(***************************************************************************)
Forms == {"empty", "type", "enum", "elements", "properties", "values", "discriminator"}

Range(f) == {f[x] : x \in DOMAIN f}

\* the tree is built of the seven forms; required and optional keys are disjoint;
\* an enum is non-empty; a discriminator's mapping is non-empty and maps to
\* Properties forms that do not declare the tag
RECURSIVE WellFormed(_)
WellFormed(s) ==
    /\ s.form \in Forms
    /\ s.form = "type" => s.type \in Types
    /\ s.form = "enum" => s.vals # {}
    /\ s.form \in {"elements", "values"} => WellFormed(s.sub)
    /\ s.form = "properties" =>
        /\ DOMAIN s.required \cap DOMAIN s.optional = {}
        /\ \A sub \in Range(s.required) \cup Range(s.optional) : WellFormed(sub)
    /\ s.form = "discriminator" =>
        /\ DOMAIN s.mapping # {}
        /\ \A sub \in Range(s.mapping) :
            /\ sub.form = "properties"
            /\ s.tag \notin DOMAIN sub.required \cup DOMAIN sub.optional
            /\ WellFormed(sub)

IsDigit(c) == 48 <= c /\ c <= 57
Num2(s, p) == (s[p] - 48) * 10 + (s[p + 1] - 48)

DaysInMonth(y, m) ==
    IF m = 2
    THEN (IF y % 4 = 0 /\ (y % 100 # 0 \/ y % 400 = 0) THEN 29 ELSE 28)
    ELSE (IF m \in {4, 6, 9, 11} THEN 30 ELSE 31)

\* s is an RFC 3339 date-time with a numeric offset: YYYY-MM-DDTHH:MM:SS+HH:MM
IsRfc3339(s) ==
    /\ Len(s) = 25
    /\ \A p \in {1, 2, 3, 4, 6, 7, 9, 10, 12, 13, 15, 16, 18, 19, 21, 22, 24, 25} : IsDigit(s[p])
    /\ s[5] = 45 /\ s[8] = 45 /\ s[11] \in {84, 116}
    /\ s[14] = 58 /\ s[17] = 58 /\ s[20] \in {43, 45} /\ s[23] = 58
    /\ Num2(s, 6) \in 1 .. 12
    /\ Num2(s, 9) \in 1 .. DaysInMonth(Num2(s, 1) * 100 + Num2(s, 3), Num2(s, 6))
    /\ Num2(s, 12) <= 23 /\ Num2(s, 15) <= 59 /\ Num2(s, 18) <= 60
    /\ Num2(s, 21) <= 23 /\ Num2(s, 24) <= 59

IsNumber(v) == v[1] \in {"int", "float"}

\* v is a number without fractional part that lies in lo .. hi
IsIntIn(v, lo, hi) ==
    \/ v[1] = "int" /\ lo <= v[2] /\ v[2] <= hi
    \/ /\ v[1] = "float"
       /\ v[2] % Pow2(v[3]) = 0
       /\ lo <= v[2] \div Pow2(v[3]) /\ v[2] \div Pow2(v[3]) <= hi

ConformsType(v, ty) ==
    CASE ty = "boolean" -> v[1] = "bool"
      [] ty = "int8" -> IsIntIn(v, -128, 127)
      [] ty = "uint8" -> IsIntIn(v, 0, 255)
      [] ty = "int16" -> IsIntIn(v, -32768, 32767)
      [] ty = "uint16" -> IsIntIn(v, 0, 65535)
      [] ty = "int32" -> IsIntIn(v, -2147483647 - 1, 2147483647)
      [] ty = "uint32" -> IsIntIn(v, 0, 2147483647)
      [] ty \in {"float32", "float64"} -> IsNumber(v)
      [] ty = "string" -> v[1] = "str"
      [] ty = "timestamp" -> v[1] = "str" /\ IsRfc3339(v[2])

Restrict(m, S) == [k \in S |-> m[k]]

\* value v conforms to schema node s under the JDDF form rules
RECURSIVE Conforms(_, _)
Conforms(v, s) ==
    CASE s.form = "empty" -> TRUE
      [] s.form = "type" -> ConformsType(v, s.type)
      [] s.form = "enum" -> v[1] = "str" /\ v[2] \in s.vals
      [] s.form = "elements" ->
            v[1] = "arr" /\ \A j \in DOMAIN v[2] : Conforms(v[2][j], s.sub)
      [] s.form = "properties" ->
            /\ IsObj(v)
            /\ \A k \in DOMAIN s.required :
                k \in DOMAIN v[2] /\ Conforms(v[2][k], s.required[k])
            /\ \A k \in DOMAIN s.optional :
                k \in DOMAIN v[2] => Conforms(v[2][k], s.optional[k])
            /\ ~s.allow_additional =>
                DOMAIN v[2] \subseteq DOMAIN s.required \cup DOMAIN s.optional
      [] s.form = "values" ->
            IsObj(v) /\ \A k \in DOMAIN v[2] : Conforms(v[2][k], s.sub)
      [] s.form = "discriminator" ->
            /\ IsObj(v)
            /\ s.tag \in DOMAIN v[2]
            /\ v[2][s.tag][1] = "str"
            /\ v[2][s.tag][2] \in DOMAIN s.mapping
            /\ Conforms(Obj(Restrict(v[2], DOMAIN v[2] \ {s.tag})),
                        s.mapping[v[2][s.tag][2]])
      [] OTHER -> FALSE

(***************************************************************************)
(* Properties of the generator                                             *)
(***************************************************************************)
\* C1: the value a top-level fuzz call returns on a schema that satisfies the
\* schema compiler's invariants conforms to the schema.
C1_RoundTrip == (pc = "return" /\ WellFormed(schema)) => Conforms(val, schema)

\* the key-set rule of every Properties node met while walking v along s (the
\* members of a node that allows additional members are not walked into: an
\* additional member may have replaced them)
RECURSIVE KeySetOk(_, _)
KeySetOk(v, s) ==
    CASE s.form = "properties" ->
            /\ IsObj(v)
            /\ DOMAIN s.required \subseteq DOMAIN v[2]
            /\ ~s.allow_additional =>
                /\ DOMAIN v[2] \subseteq DOMAIN s.required \cup DOMAIN s.optional
                /\ \A k \in DOMAIN v[2] :
                    KeySetOk(v[2][k], (s.required @@ s.optional)[k])
      [] s.form = "elements" ->
            v[1] = "arr" /\ \A j \in DOMAIN v[2] : KeySetOk(v[2][j], s.sub)
      [] s.form = "values" ->
            IsObj(v) /\ \A k \in DOMAIN v[2] : KeySetOk(v[2][k], s.sub)
      [] OTHER -> TRUE

\* C4: the key set K of an object generated for a Properties node contains every
\* required key, and is contained in required \cup optional when the node does not
\* allow additional members.  Checked on the root node, on the Properties nodes
\* below it, and on the object a discriminator generated from the chosen node.
C4_KeySet ==
    pc = "return" =>
        /\ KeySetOk(val, schema)
        /\ frame.fn = "fuzz_discr" => KeySetOk(frame.obj, schema.mapping[frame.tag_val])

\* a closed Properties node generated exactly its required keys: the optional
\* key was skipped
C4_Witness ==
    /\ pc = "return" /\ schema = PropsClosed
    /\ DOMAIN val[2] = DOMAIN schema.required
    /\ DOMAIN schema.optional # {}

\* the outcomes of fuzz on each node of DiscrSchema's mapping
DiscrSubOutcomes == [tv \in DOMAIN DiscrSchema.mapping |-> Fuzz(DiscrSchema.mapping[tv])]

\* C5: the object generated for a Discriminator node has the tag member equal to
\* the tag value of the chosen pair; its other members are those of the object
\* obj generated from that pair's schema, and obj was generated from that schema;
\* also when obj already had a member under the tag.
C5_TagWins ==
    (pc = "return" /\ schema = DiscrSchema) =>
        /\ frame.fn = "fuzz_discr"
        /\ frame.tag_val \in DOMAIN schema.mapping
        /\ frame.obj \in DiscrSubOutcomes[frame.tag_val]
        /\ IsObj(val) /\ IsObj(frame.obj)
        /\ val[2][schema.tag] = Str(frame.tag_val)
        /\ DOMAIN val[2] = DOMAIN frame.obj[2] \cup {schema.tag}
        /\ \A k \in DOMAIN frame.obj[2] : k # schema.tag => val[2][k] = frame.obj[2][k]

\* the object generated from the chosen schema already had a member under the
\* tag (an additional member with a colliding key), with another value
C5_Witness ==
    /\ pc = "return" /\ schema = DiscrSchema
    /\ schema.tag \in DOMAIN frame.obj[2]
    /\ frame.obj[2][schema.tag] # Str(frame.tag_val)
    /\ val[2][schema.tag] = Str(frame.tag_val)

\* every float of the width (GenFloatAllBits), as the JSON value it converts to
\* when it is finite
AllFloatValues(bits) ==
    {FloatNum(f[2] * f[3], f[4]) : f \in {g \in GenFloatAllBits(bits) : g[1] = "fin"}}

FloatBits(s) == IF s = SType("float32") THEN F32Bits ELSE F64Bits

\* C7 as claimed: for a float32 or float64 node the values generation can produce
\* are those of the full bit-pattern range of the width: values of either sign and
\* of magnitude 1 or greater are outcomes, and a non-finite draw is an outcome
\* of the random source.
C7_FullBitRange ==
    (pc = "fuzz" /\ schema \in {SType("float32"), SType("float64")}) =>
        /\ AllFloatValues(FloatBits(schema)) \subseteq Fuzz(schema)
        /\ GenFloatAllBits(FloatBits(schema)) \subseteq GenFloat(FloatBits(schema))

\* v is a float k / 2^bits with 0 <= k < 2^bits
InUnitInterval(v) == v[1] = "float" /\ 0 <= v[2] /\ v[2] < Pow2(v[3])

\* C7 as amended: a value generated for a float32 or float64 node is a finite float
\* in [0, 1); so is every float generated for the Empty form.
C7_UnitInterval ==
    pc = "return" =>
        /\ schema \in {SType("float32"), SType("float64")} => InUnitInterval(val)
        /\ (schema = SEmpty /\ val[1] = "float") => InUnitInterval(val)

\* the largest float64 the generator produces: one step below 1
C7_Witness ==
    /\ pc = "return" /\ schema = SType("float64")
    /\ val = FloatNum(Pow2(F64Bits) - 1, F64Bits)

\* C8: on a schema that satisfies the schema compiler's invariants the call can
\* complete and never unwinds (no failed unwrap, no unsupported form), and the
\* schema tree is never changed.
C8_Total ==
    /\ [](WellFormed(schema) => pc # "panic_fuzz")
    /\ []((WellFormed(schema) /\ pc = "fuzz") => ENABLED Generate)
    /\ [][schema' = schema]_vars

\* a call on a discriminator (two unwraps) has returned
C8_Witness == pc = "return" /\ schema = DiscrSchema

\* pairs[j] is the last insertion under its key
IsLast(pairs, j) == \A h \in DOMAIN pairs : pairs[h][1] = pairs[j][1] => h <= j

\* m is the map with one member per key of pairs, holding the value of the last
\* insertion under that key
LastWriteWins(pairs, m) ==
    /\ DOMAIN m = {pairs[j][1] : j \in DOMAIN pairs}
    /\ \A j \in DOMAIN pairs : IsLast(pairs, j) => m[pairs[j][1]] = pairs[j][2]

\* vals holds the required keys once each, then optional keys at most once each,
\* then (only when additional members are allowed) additional members
InsertionOrder(vals, s) ==
    LET nreq == Cardinality(DOMAIN s.required)
    IN  /\ Len(vals) >= nreq
        /\ {vals[j][1] : j \in 1 .. nreq} = DOMAIN s.required
        /\ \E nopt \in 0 .. (Len(vals) - nreq) :
            /\ \A j \in (nreq + 1) .. (nreq + nopt) : vals[j][1] \in DOMAIN s.optional
            /\ \A j, h \in (nreq + 1) .. (nreq + nopt) : j # h => vals[j][1] # vals[h][1]
            /\ \A j \in (nreq + nopt + 1) .. Len(vals) :
                /\ s.allow_additional
                /\ vals[j][1] \in fuzz_str
                /\ vals[j][2] \in fuzz_any

====
